---- MODULE Spec2Model ----
(***************************************************************************)
(* Application (the lifecycle orchestrator of Coati/Sourcetrail): the      *)
(* message handlers of Application.cpp, the recent-projects list they      *)
(* maintain, the task queue through which messages reach them, and the     *)
(* startup and shutdown sequence with the license gate.                    *)
(*                                                                         *)
(* A project path is a number: 0 is the empty FilePath, 1.. are settings   *)
(* files.  m_project is 0 when the shared_ptr is null and otherwise the    *)
(* path returned by getProjectSettingsFilePath().  Every call a handler    *)
(* makes into a collaborator (settings, storage cache, project, main view, *)
(* component manager, message dispatch) is appended to a call log, so the  *)
(* effects of a handler are part of the state.                             *)
(***************************************************************************)
EXTENDS Integers, Sequences, FiniteSets, TLC

\* ------------------------------------------------------------------ sizes

\* Project settings files that LoadProject messages name: 1..NumPaths.
NumPaths == 2

\* Threads that publish messages, besides the scheduler's worker: 1..NumProducers.
NumProducers == 2

\* Messages the producers publish in SpecSched, all together.
MaxPublished == 3

\* Longest recent-projects list found in the settings file at startup.
MaxStored == 9

\* Paths handed to updateRecentProjects in SpecRecent: 1..NumRecentPaths.
NumRecentPaths == 4

\* Distinct projects loaded one after the other in SpecMRU: 1..NumAdds.
NumAdds == 8

\* License-validity signals received in SpecLicense.
MaxSignals == 2

\* Calls of TaskScheduler::stopSchedulerLoop in SpecLife, all together.
MaxStopCalls == 2

\* The capacity of the recent-projects list (while (size() > 7) pop_back()).
MaxRecentProjects == 7

NoPath == 0
Paths == 1..NumPaths

Min(a, b) == IF a < b THEN a ELSE b

Range(s) == {s[i] : i \in 1..Len(s)}

Count(s, x) == Cardinality({i \in 1..Len(s) : s[i] = x})

NoDuplicates(s) == \A i, j \in 1..Len(s) : s[i] = s[j] => i = j

\* ---------------------------------------------------------------- messages

MessageLoadProject(p, force) ==
    [kind |-> "LoadProject", path |-> p, forceRefresh |-> force,
     all |-> FALSE, uiOnly |-> FALSE, reloadSettings |-> FALSE]

\* MessageRefresh carries all, uiOnly and reloadSettings.
MessageRefresh(all, uiOnly, reloadSettings) ==
    [kind |-> "Refresh", path |-> NoPath, forceRefresh |-> FALSE,
     all |-> all, uiOnly |-> uiOnly, reloadSettings |-> reloadSettings]

MessageSwitchColorScheme ==
    [kind |-> "SwitchColorScheme", path |-> NoPath, forceRefresh |-> FALSE,
     all |-> FALSE, uiOnly |-> FALSE, reloadSettings |-> FALSE]

MessageFinishedParsing ==
    [kind |-> "FinishedParsing", path |-> NoPath, forceRefresh |-> FALSE,
     all |-> FALSE, uiOnly |-> FALSE, reloadSettings |-> FALSE]

MessageActivateWindow ==
    [kind |-> "ActivateWindow", path |-> NoPath, forceRefresh |-> FALSE,
     all |-> FALSE, uiOnly |-> FALSE, reloadSettings |-> FALSE]

\* MessageShowStartScreen: the views listen to it, Application does not.
MessageShowStartScreen ==
    [kind |-> "ShowStartScreen", path |-> NoPath, forceRefresh |-> FALSE,
     all |-> FALSE, uiOnly |-> FALSE, reloadSettings |-> FALSE]

\* No message: the value of last.msg before any handler has run.
NoMessage ==
    [kind |-> "None", path |-> NoPath, forceRefresh |-> FALSE,
     all |-> FALSE, uiOnly |-> FALSE, reloadSettings |-> FALSE]

\* MessageRefresh().refreshUiOnly(): uiOnly set, the other fields at their
\* defaults (a default-constructed MessageRefresh reloads the settings; that
\* is why keepSettings() exists).
RefreshUiOnly == MessageRefresh(FALSE, TRUE, TRUE)

\* MessageRefresh().refreshUiOnly().keepSettings()
RefreshUiOnlyKeepSettings == MessageRefresh(FALSE, TRUE, FALSE)

\* The messages Application listens to, as the environment publishes them.
Messages ==
    {MessageLoadProject(p, f) : p \in {NoPath} \cup Paths, f \in BOOLEAN}
    \cup {MessageRefresh(a, u, r) : a \in BOOLEAN, u \in BOOLEAN, r \in BOOLEAN}
    \cup {MessageSwitchColorScheme, MessageFinishedParsing, MessageActivateWindow}

\* ------------------------------------------------------------------- state

VARIABLES
    hasGUI,          \* m_hasGUI: a view factory was given to createInstance
    isTrial,         \* isTrial(): fixed by the build
    project,         \* m_project: NoPath when null, else its settings file path
    recentProjects,  \* ApplicationSettings' recent projects (memory and file)
    last,            \* log of the most recent handler invocation
    alive,           \* the process has not been terminated
    messaging,       \* what startMessagingAndScheduling has set up
    queue,           \* the scheduler's tasks not yet begun, oldest first
    running,         \* the deliveries in progress, each on its thread
    published,       \* per thread, the number of messages it has published
    completed,       \* per thread, the last of its messages delivered to all
    lifecycle,       \* the calls createInstance and ~Application have made
    stopping,        \* stopSchedulerLoop is waiting for the worker to exit
    stopCalls,       \* the number of calls of stopSchedulerLoop
    signals,         \* the license-validity signals received, oldest first
    pending,         \* the license gate's deferred messages, oldest first
    wrapped          \* every message given to the license gate, with the
                     \* number of signals received before it, oldest first

appVars == <<hasGUI, isTrial, project, recentProjects, last, alive>>

schedVars == <<messaging, queue, running, published, completed>>

lifeVars == <<lifecycle, stopping, stopCalls>>

gateVars == <<signals, pending, wrapped>>

vars == <<appVars, schedVars, lifeVars, gateVars>>

\* The part of the state a handler reads and writes, with the log of what it
\* did: the collaborator calls in order, the messages it dispatched to the
\* queue, the dialog answer it received (NoAnswer when no dialog was shown),
\* the place where a collaborator threw (if one did) and whether the
\* exception left the handler.
NoAnswer == -1

AppState(gui, trial, proj, recent) ==
    [hasGUI |-> gui, isTrial |-> trial, project |-> proj, recentProjects |-> recent,
     calls |-> <<>>, sent |-> <<>>, answer |-> NoAnswer,
     fault |-> "none", escaped |-> FALSE, nullDeref |-> FALSE, crashed |-> FALSE]

Call(st, c) == [st EXCEPT !.calls = Append(@, c)]

Send(st, m) == [st EXCEPT !.sent = Append(@, m)]

\* A collaborator call throws: the try block is left at this point.
Throw(st, at) == [st EXCEPT !.fault = at]

\* ------------------------------------------------- settings and style load

\* Application::loadStyle
loadStyle(st) ==
    Call(Call(st, "ColorScheme::load"), "GraphViewStyle::loadStyleSettings")

\* Application::loadSettings
loadSettings(st) == loadStyle(Call(st, "ApplicationSettings::load"))

\* ------------------------------------------------------- recent projects

\* std::find: the index of the first element equal to p, 0 for end().
Find(list, p) ==
    IF \E i \in 1..Len(list) : list[i] = p
    THEN CHOOSE i \in 1..Len(list) :
            list[i] = p /\ \A j \in 1..(i - 1) : list[j] # p
    ELSE 0

\* std::vector::erase(it)
Erase(list, i) == SubSeq(list, 1, i - 1) \o SubSeq(list, i + 1, Len(list))

\* Mutant of PopBackWhileOver: if in place of while, one pop_back at most.
PopBackWhileOver_Once(list, cap) ==
    IF Len(list) > cap THEN SubSeq(list, 1, Len(list) - 1) ELSE list

\* while (recentProjects.size() > 7) recentProjects.pop_back();
RECURSIVE PopBackWhileOver(_, _)
PopBackWhileOver(list, cap) ==
    IF Len(list) > cap
    THEN PopBackWhileOver(SubSeq(list, 1, Len(list) - 1), cap)
    ELSE list

\* Mutant of updateRecentProjects: the list is not saved.
updateRecentProjects_NoSave(st, p) ==
    IF st.hasGUI
    THEN LET recent == st.recentProjects
             it == IF Len(recent) # 0 THEN Find(recent, p) ELSE 0
             erased == IF it # 0 THEN Erase(recent, it) ELSE recent
             capped == PopBackWhileOver(<<p>> \o erased, MaxRecentProjects)
             s1 == Call([st EXCEPT !.recentProjects = capped],
                        "ApplicationSettings::setRecentProjects")
         IN  Call(s1, "MainView::updateRecentProjectMenu")
    ELSE st

\* Mutant of updateRecentProjects: push_back in place of insert(begin()).
updateRecentProjects_PushBack(st, p) ==
    IF st.hasGUI
    THEN LET recent == st.recentProjects
             it == IF Len(recent) # 0 THEN Find(recent, p) ELSE 0
             erased == IF it # 0 THEN Erase(recent, it) ELSE recent
             capped == PopBackWhileOver(Append(erased, p), MaxRecentProjects)
             s1 == Call([st EXCEPT !.recentProjects = capped],
                        "ApplicationSettings::setRecentProjects")
             s2 == Call(s1, "ApplicationSettings::save")
         IN  Call(s2, "MainView::updateRecentProjectMenu")
    ELSE st

\* Mutant of updateRecentProjects: the entry found is not erased.
updateRecentProjects_NoErase(st, p) ==
    IF st.hasGUI
    THEN LET capped == PopBackWhileOver(<<p>> \o st.recentProjects, MaxRecentProjects)
             s1 == Call([st EXCEPT !.recentProjects = capped],
                        "ApplicationSettings::setRecentProjects")
             s2 == Call(s1, "ApplicationSettings::save")
         IN  Call(s2, "MainView::updateRecentProjectMenu")
    ELSE st

\* Application::updateRecentProjects
updateRecentProjects(st, p) ==
    IF st.hasGUI
    THEN LET recent == st.recentProjects
             it == IF Len(recent) # 0 THEN Find(recent, p) ELSE 0
             erased == IF it # 0 THEN Erase(recent, it) ELSE recent
             inserted == <<p>> \o erased
             capped == PopBackWhileOver(inserted, MaxRecentProjects)
             s1 == Call([st EXCEPT !.recentProjects = capped],
                        "ApplicationSettings::setRecentProjects")
             s2 == Call(s1, "ApplicationSettings::save")
         IN  Call(s2, "MainView::updateRecentProjectMenu")
    ELSE st

\* ------------------------------------------------------------ project load

\* Application::loadProject.  clearComponents is a collaborator call that may
\* throw (fault = "load").
loadProject(st, fault) ==
    IF st.hasGUI
    THEN LET s1 == Call(st, "ComponentManager::clearComponents")
         IN  IF fault = "load" THEN Throw(s1, "load") ELSE s1
    ELSE st

\* Mutant of createAndLoadProjectTry: m_project is reset before the new
\* project is created.
createAndLoadProjectTry_ResetFirst(st, p, fault) ==
    LET s1 == updateRecentProjects(st, p)
        s2 == Call([s1 EXCEPT !.project = NoPath], "StorageCache::clear")
        s3 == Call(s2, "Project::create")
    IN  IF fault = "create"
        THEN Throw(s3, "create")
        ELSE LET s4 == [s3 EXCEPT !.project = p]
                 s5 == loadProject(s4, fault)
             IN  IF s5.fault # "none"
                 THEN s5
                 ELSE IF s5.hasGUI
                      THEN LET s6 == Call(s5, "MainView::setTitle")
                               s7 == Call(s6, "MainView::hideStartScreen")
                               s8 == Call(s7, "ComponentManager::refreshViews")
                           IN  IF fault = "view" THEN Throw(s8, "view") ELSE s8
                      ELSE s5

\* The try block of Application::createAndLoadProject.  Project::create may
\* throw (fault = "create"), in which case m_project is not assigned; so may
\* the component and view calls that follow the assignment.
createAndLoadProjectTry(st, p, fault) ==
    LET s1 == updateRecentProjects(st, p)
        s2 == Call(s1, "StorageCache::clear")
        s3 == Call(s2, "Project::create")
    IN  IF fault = "create"
        THEN Throw(s3, "create")
        ELSE LET s4 == [s3 EXCEPT !.project = p]
                 s5 == loadProject(s4, fault)
             IN  IF s5.fault # "none"
                 THEN s5
                 ELSE IF s5.hasGUI
                      THEN LET s6 == Call(s5, "MainView::setTitle")
                               s7 == Call(s6, "MainView::hideStartScreen")
                               s8 == Call(s7, "ComponentManager::refreshViews")
                           IN  IF fault = "view" THEN Throw(s8, "view") ELSE s8
                      ELSE s5

\* The catch (...) block of Application::createAndLoadProject.
catchLoadFailure(st) ==
    Call(Call(st, "LOG_ERROR"), "MessageStatus(error)")

\* Mutant of createAndLoadProject: no catch block, the exception leaves.
createAndLoadProject_NoCatch(st, p, fault) ==
    LET s0 == Call(st, "MessageStatus(loading)")
        s1 == createAndLoadProjectTry(s0, p, fault)
    IN  IF s1.fault # "none" THEN [s1 EXCEPT !.escaped = TRUE] ELSE s1

\* Application::createAndLoadProject
createAndLoadProject(st, p, fault) ==
    LET s0 == Call(st, "MessageStatus(loading)")
        s1 == createAndLoadProjectTry(s0, p, fault)
    IN  IF s1.fault # "none" THEN catchLoadFailure(s1) ELSE s1

\* --------------------------------------------------------- project refresh

\* m_project->f() through a null m_project is undefined behaviour: the
\* process is terminated (ub = "crash") or the call goes through without
\* touching the object (ub = "proceed").
callProject(st, f, ub) ==
    IF st.project = NoPath
    THEN IF ub = "crash"
         THEN [st EXCEPT !.nullDeref = TRUE, !.crashed = TRUE]
         ELSE Call([st EXCEPT !.nullDeref = TRUE], f)
    ELSE Call(st, f)

\* Mutant of refreshProject: the views are refreshed without the m_hasGUI
\* test.
refreshProject_NoGUITest(st, force, ub) ==
    LET s0 == Call(st, "MessageStatus(refreshing)")
        s1 == Call(s0, "StorageCache::clear")
        s2 == Call(s1, "ComponentManager::refreshViews")
    IN  IF force
        THEN callProject(s2, "Project::forceRefresh", ub)
        ELSE callProject(s2, "Project::refresh", ub)

\* Application::refreshProject
refreshProject(st, force, ub) ==
    LET s0 == Call(st, "MessageStatus(refreshing)")
        s1 == Call(s0, "StorageCache::clear")
        s2 == IF s1.hasGUI THEN Call(s1, "ComponentManager::refreshViews") ELSE s1
    IN  IF force
        THEN callProject(s2, "Project::forceRefresh", ub)
        ELSE callProject(s2, "Project::refresh", ub)

\* ---------------------------------------------------------------- handlers

\* Application::handleMessage(MessageActivateWindow*)
handleMessageActivateWindow(st) ==
    IF st.hasGUI THEN Call(st, "MainView::activateWindow") ELSE st

\* Application::handleMessage(MessageFinishedParsing*)
handleMessageFinishedParsing(st, ub) ==
    LET s1 == callProject(st, "Project::logStats", ub)
    IN  IF s1.crashed
        THEN s1
        ELSE IF s1.hasGUI THEN Send(s1, RefreshUiOnly) ELSE s1

\* Mutant of handleMessage(MessageLoadProject*): without the force flag the
\* project is created and loaded even when it is the current one.
handleMessageLoadProject_NoGuard(st, m, answer, fault, ub) ==
    LET s0 == loadSettings(st)
        differs == s0.project = NoPath \/ m.path # s0.project
    IN  IF m.path = NoPath
        THEN s0
        ELSE IF m.forceRefresh /\ ~s0.isTrial
             THEN IF s0.hasGUI
                  THEN LET s1 == [Call(s0, "MainView::confirm") EXCEPT !.answer = answer]
                       IN  IF answer = 1 /\ differs
                           THEN createAndLoadProject(s1, m.path, fault)
                           ELSE refreshProject(s1, TRUE, ub)
                  ELSE refreshProject(s0, TRUE, ub)
             ELSE createAndLoadProject(s0, m.path, fault)

\* Application::handleMessage(MessageLoadProject*)
handleMessageLoadProject(st, m, answer, fault, ub) ==
    LET s0 == loadSettings(st)
        differs == s0.project = NoPath \/ m.path # s0.project
    IN  IF m.path = NoPath
        THEN s0
        ELSE IF m.forceRefresh /\ ~s0.isTrial
             THEN IF s0.hasGUI
                  THEN LET s1 == [Call(s0, "MainView::confirm") EXCEPT !.answer = answer]
                       IN  IF answer = 1 /\ differs
                           THEN createAndLoadProject(s1, m.path, fault)
                           ELSE refreshProject(s1, TRUE, ub)
                  ELSE refreshProject(s0, TRUE, ub)
             ELSE IF differs
                  THEN createAndLoadProject(s0, m.path, fault)
                  ELSE s0

\* Application::handleMessage(MessageRefresh*)
handleMessageRefresh(st, m, ub) ==
    LET s0 == IF m.reloadSettings THEN loadSettings(st) ELSE st
    IN  IF m.uiOnly
        THEN IF s0.hasGUI THEN Call(s0, "ComponentManager::refreshViews") ELSE s0
        ELSE refreshProject(s0, m.all, ub)

\* Mutant of handleMessage(MessageSwitchColorScheme*): keepSettings() is left
\* out of the Refresh message.
handleMessageSwitchColorScheme_ReloadSettings(st) ==
    Send(loadStyle(st), RefreshUiOnly)

\* Application::handleMessage(MessageSwitchColorScheme*)
handleMessageSwitchColorScheme(st) ==
    Send(loadStyle(st), RefreshUiOnlyKeepSettings)

\* The handler the message's kind selects.
handleMessage(st, m, answer, fault, ub) ==
    CASE m.kind = "ActivateWindow" -> handleMessageActivateWindow(st)
      [] m.kind = "FinishedParsing" -> handleMessageFinishedParsing(st, ub)
      [] m.kind = "LoadProject" -> handleMessageLoadProject(st, m, answer, fault, ub)
      [] m.kind = "Refresh" -> handleMessageRefresh(st, m, ub)
      [] m.kind = "SwitchColorScheme" -> handleMessageSwitchColorScheme(st)

\* ------------------------------------------------- messaging and scheduling

\* The scheduler's worker thread; the producers are the threads 1..NumProducers.
Worker == 0

Producers == 1..NumProducers

Threads == {Worker} \cup Producers

\* A task wraps the delivery of one message: the message, the thread that
\* published it and its number among the messages of that thread.
Task(m, from, seq) == [msg |-> m, from |-> from, seq |-> seq]

\* The listeners subscribed to a kind of message, in subscription order:
\* Application handles its five kinds, the views listen to Refresh too, and
\* ShowStartScreen goes to the views alone.
Subscribers(kind) ==
    CASE kind = "Refresh" -> <<"Application", "View">>
      [] kind = "ShowStartScreen" -> <<"View">>
      [] OTHER -> <<"Application">>

\* Mutant of startMessagingAndScheduling: the scheduler loop is started twice.
startMessagingAndScheduling_TwoLoops ==
    [schedulerLoops |-> 2, sendMessagesAsTasks |-> TRUE, messageLoops |-> 1]

\* Mutant of startMessagingAndScheduling: setSendMessagesAsTasks(true) is
\* left out.
startMessagingAndScheduling_NotAsTasks ==
    [schedulerLoops |-> 1, sendMessagesAsTasks |-> FALSE, messageLoops |-> 1]

\* Application::startMessagingAndScheduling: one scheduler loop thread is
\* started, messages are sent as tasks, the message loop is started.
startMessagingAndScheduling ==
    [schedulerLoops |-> 1, sendMessagesAsTasks |-> TRUE, messageLoops |-> 1]

\* The messaging state before startMessagingAndScheduling: no loop runs and
\* messages are delivered synchronously.
NotStarted ==
    [schedulerLoops |-> 0, sendMessagesAsTasks |-> FALSE, messageLoops |-> 0]

\* The thread that runs main(): createInstance, the UI and ~Application.
MainThread == 1

\* Mutant of createInstance: the messaging and scheduling is started first.
createInstance_StartFirst(gui) ==
    <<"Application::startMessagingAndScheduling">>
    \o loadSettings(AppState(gui, FALSE, NoPath, <<>>)).calls
    \o <<"TaskScheduler::getInstance", "MessageQueue::getInstance",
         "LicenseChecker::createInstance">>
    \o (IF gui
        THEN <<"ComponentManager::create", "ViewFactory::createMainView",
               "MainView::setTitle", "MessageDispatchWhenLicenseValid::dispatch",
               "ComponentManager::setup", "MainView::loadLayout">>
        ELSE <<>>)

\* Mutant of createInstance: MessageShowStartScreen is dispatched as it is,
\* not wrapped in MessageDispatchWhenLicenseValid.
createInstance_NoLicenseGate(gui) ==
    loadSettings(AppState(gui, FALSE, NoPath, <<>>)).calls
    \o <<"TaskScheduler::getInstance", "MessageQueue::getInstance",
         "LicenseChecker::createInstance">>
    \o (IF gui
        THEN <<"ComponentManager::create", "ViewFactory::createMainView",
               "MainView::setTitle", "MessageShowStartScreen::dispatch",
               "ComponentManager::setup", "MainView::loadLayout">>
        ELSE <<>>)
    \o <<"Application::startMessagingAndScheduling">>

\* Application::createInstance (with the constructor it runs): the calls it
\* makes, in order.  gui: a view factory was given.  (The IDE communication
\* controller, created when a network factory is given, takes no part.)
createInstance(gui) ==
    loadSettings(AppState(gui, FALSE, NoPath, <<>>)).calls
    \o <<"TaskScheduler::getInstance", "MessageQueue::getInstance",
         "LicenseChecker::createInstance">>
    \o (IF gui
        THEN <<"ComponentManager::create", "ViewFactory::createMainView",
               "MainView::setTitle", "MessageDispatchWhenLicenseValid::dispatch",
               "ComponentManager::setup", "MainView::loadLayout">>
        ELSE <<>>)
    \o <<"Application::startMessagingAndScheduling">>

\* Application::~Application: the calls it makes, in order.
ApplicationDestructor(gui) ==
    <<"MessageQueue::stopMessageLoop", "TaskScheduler::stopSchedulerLoop">>
    \o (IF gui THEN <<"MainView::saveLayout">> ELSE <<>>)

\* A delivery in progress: the task, the thread it runs on and the
\* subscribers still to be served.
Delivery(t, thread) ==
    [task |-> t, thread |-> thread, todo |-> Subscribers(t.msg.kind)]

\* The follow-up messages a handler on thread `thread` dispatched, as tasks
\* numbered after the messages the thread has published before.
FollowUps(sent, thread) ==
    [i \in 1..Len(sent) |-> Task(sent[i], thread, published[thread] + i)]

\* ----------------------------------------------------------------- actions

\* The choices of MainView::confirm(message, {"Yes", "No"}).
DialogChoices == {0, 1}

\* Where a collaborator may throw during a load ("none": nowhere).
FaultPoints == {"none", "create", "load", "view"}

\* What a call through a null m_project may do.
NullCallOutcomes == {"crash", "proceed"}

\* The inputs <<answer, fault, ub>> the handler of message m can consume:
\* only the LoadProject handler shows the dialog and loads a project, and
\* the ActivateWindow and SwitchColorScheme handlers do not use m_project.
HandlerInputs(m) ==
    (IF m.kind = "LoadProject" THEN DialogChoices ELSE {0})
    \X (IF m.kind = "LoadProject" THEN FaultPoints ELSE {"none"})
    \X (IF m.kind \in {"ActivateWindow", "SwitchColorScheme"}
        THEN {"proceed"}
        ELSE NullCallOutcomes)

\* The log of a handler invocation, as kept in the variable last.
LogOf(m, st) ==
    [msg |-> m, calls |-> st.calls, answer |-> st.answer, fault |-> st.fault,
     escaped |-> st.escaped, nullDeref |-> st.nullDeref]

NoLog == LogOf(NoMessage, AppState(FALSE, FALSE, NoPath, <<>>))

\* A recent-projects list as found in the settings file at startup: the
\* projects b+k, .., b+1, most recent first.  It may be longer than the
\* capacity (a file written by hand or by another version).
Stored(b, k) == [i \in 1..k |-> b + k + 1 - i]

StoredLists == {Stored(b, k) : b \in {0, NumRecentPaths}, k \in 0..MaxStored}

\* The calls made and the license gate after Application::createInstance,
\* no validity signal having arrived: the gate holds the ShowStartScreen
\* message that createInstance gave it.
InitCreated ==
    /\ lifecycle = createInstance(hasGUI)
    /\ stopping = FALSE
    /\ stopCalls = 0
    /\ signals = <<>>
    /\ pending = IF "MessageDispatchWhenLicenseValid::dispatch" \in Range(lifecycle)
                 THEN <<MessageShowStartScreen>>
                 ELSE <<>>
    /\ wrapped = [i \in 1..Len(pending) |-> [msg |-> pending[i], at |-> 0]]

\* The messaging state after Application::createInstance.
InitSched ==
    /\ messaging = startMessagingAndScheduling
    /\ queue = <<>>
    /\ running = {}
    /\ published = [t \in Threads |-> 0]
    /\ completed = [t \in Threads |-> 0]

\* The state after Application::createInstance.
Init ==
    /\ hasGUI \in BOOLEAN
    /\ isTrial \in BOOLEAN
    /\ project = NoPath
    /\ recentProjects \in {Stored(0, 0), Stored(0, MaxStored)}
    /\ last = NoLog
    /\ alive = TRUE
    /\ InitSched
    /\ InitCreated

\* Message::dispatch() by a component outside Application, once the messages
\* dispatched before it have been handled.
Publish(m) ==
    /\ alive
    /\ queue = <<>>
    /\ queue' = Append(queue, Task(m, 1, 0))
    /\ UNCHANGED <<appVars, messaging, running, published, completed>>
    /\ UNCHANGED <<lifeVars, gateVars>>

\* The handler runs on Application for message m: its effect on the
\* application and the follow-up messages it dispatched.
Handle(m, st) ==
    /\ project' = st.project
    /\ recentProjects' = st.recentProjects
    /\ last' = LogOf(m, st)
    /\ alive' = (~st.crashed /\ ~st.escaped)
    /\ UNCHANGED <<hasGUI, isTrial>>

\* The scheduler runs the oldest task to completion: the message is handed
\* to Application::handleMessage (and to the other subscribers, which do not
\* touch the application's state).  TaskBegin, TaskDeliver for each
\* subscriber and TaskEnd in one step.
Deliver ==
    /\ alive
    /\ queue # <<>>
    /\ \E in \in HandlerInputs(Head(queue).msg) :
          LET m == Head(queue).msg
              st == handleMessage(AppState(hasGUI, isTrial, project, recentProjects),
                                  m, in[1], in[2], in[3])
          IN  /\ Handle(m, st)
              /\ queue' = Tail(queue) \o [i \in 1..Len(st.sent) |-> Task(st.sent[i], Worker, 0)]
    /\ UNCHANGED <<messaging, running, published, completed>>
    /\ UNCHANGED <<lifeVars, gateVars>>

Next ==
    \/ \E m \in Messages : Publish(m)
    \/ Deliver

Spec == Init /\ [][Next]_vars

\* ------------------------------------------- the recent-projects list alone

\* SpecRecent: updateRecentProjects applied to paths in any order, starting
\* from any stored list.  last records the call as createAndLoadProject makes
\* it for a LoadProject message naming p.
InitRecent ==
    /\ hasGUI \in BOOLEAN
    /\ isTrial = FALSE
    /\ project = NoPath
    /\ recentProjects \in StoredLists
    /\ last = NoLog
    /\ alive = TRUE
    /\ InitSched
    /\ InitCreated

AddRecent(p) ==
    LET st == updateRecentProjects(AppState(hasGUI, isTrial, project, recentProjects), p)
    IN  /\ recentProjects' = st.recentProjects
        /\ last' = LogOf(MessageLoadProject(p, FALSE), st)
        /\ UNCHANGED <<hasGUI, isTrial, project, alive, schedVars>>
        /\ UNCHANGED <<lifeVars, gateVars>>

NextRecent == \E p \in 1..NumRecentPaths : AddRecent(p)

SpecRecent == InitRecent /\ [][NextRecent]_vars

\* SpecMRU: the projects 1, 2, .., NumAdds are loaded one after the other,
\* starting with no project and an empty recent-projects list: the
\* LoadProject messages are in the queue, in that order.
LoadScript == [i \in 1..NumAdds |-> Task(MessageLoadProject(i, FALSE), 1, i)]

InitMRU ==
    /\ hasGUI \in BOOLEAN
    /\ isTrial \in BOOLEAN
    /\ project = NoPath
    /\ recentProjects = <<>>
    /\ last = NoLog
    /\ alive = TRUE
    /\ messaging = startMessagingAndScheduling
    /\ queue = LoadScript
    /\ running = {}
    /\ published = [t \in Threads |-> IF t = 1 THEN NumAdds ELSE 0]
    /\ completed = [t \in Threads |-> 0]
    /\ InitCreated

NextMRU == Deliver

SpecMRU == InitMRU /\ [][NextMRU]_vars

\* --------------------------------------------- producers and the scheduler

\* SpecSched: NumProducers threads publish messages while the scheduler's
\* worker delivers them, one subscriber at a time.
SchedMessages ==
    {MessageSwitchColorScheme, MessageFinishedParsing,
     MessageRefresh(FALSE, TRUE, FALSE), MessageLoadProject(1, FALSE)}

RECURSIVE SumOver(_, _)
SumOver(f, S) ==
    IF S = {} THEN 0 ELSE LET x == CHOOSE y \in S : TRUE IN f[x] + SumOver(f, S \ {x})

InitSchedSpec ==
    /\ hasGUI \in BOOLEAN
    /\ isTrial = FALSE
    /\ project = NoPath
    /\ recentProjects = <<>>
    /\ last = NoLog
    /\ alive = TRUE
    /\ InitSched
    /\ InitCreated

\* Message::dispatch() on thread p.  Sent as a task, the message goes to the
\* tail of the scheduler's queue; otherwise it is delivered synchronously, on
\* the publishing thread.
PublishFrom(p, m) ==
    /\ alive
    /\ SumOver(published, Producers) < MaxPublished
    /\ ~\E d \in running : d.thread = p
    /\ LET t == Task(m, p, published[p] + 1)
       IN  IF messaging.sendMessagesAsTasks
           THEN queue' = Append(queue, t) /\ running' = running
           ELSE queue' = queue /\ running' = running \cup {Delivery(t, p)}
    /\ published' = [published EXCEPT ![p] = @ + 1]
    /\ UNCHANGED <<appVars, messaging, completed>>
    /\ UNCHANGED <<lifeVars, gateVars>>

\* A scheduler loop thread that is idle takes the task at the head of the
\* queue.
TaskBegin ==
    /\ alive
    /\ queue # <<>>
    /\ Cardinality({d \in running : d.thread = Worker}) < messaging.schedulerLoops
    /\ running' = running \cup {Delivery(Head(queue), Worker)}
    /\ queue' = Tail(queue)
    /\ UNCHANGED <<appVars, messaging, published, completed>>
    /\ UNCHANGED <<lifeVars, gateVars>>

\* The messages a handler dispatched while delivery d was running: tasks at
\* the tail of the queue, or (not sent as tasks) deliveries begun on the spot.
Dispatched(d, rest, sent) ==
    LET ts == FollowUps(sent, d.thread)
    IN  /\ published' = [published EXCEPT ![d.thread] = @ + Len(sent)]
        /\ IF messaging.sendMessagesAsTasks
           THEN /\ queue' = queue \o ts
                /\ running' = (running \ {d}) \cup {rest}
           ELSE /\ queue' = queue
                /\ running' = (running \ {d}) \cup {rest}
                                \cup {Delivery(ts[i], d.thread) : i \in 1..Len(ts)}

\* A delivery in progress serves its next subscriber.
TaskDeliver(d) ==
    /\ alive
    /\ d \in running
    /\ d.todo # <<>>
    /\ LET rest == [d EXCEPT !.todo = Tail(@)]
       IN  IF Head(d.todo) = "Application"
           THEN \E in \in HandlerInputs(d.task.msg) :
                   LET st == handleMessage(
                                 AppState(hasGUI, isTrial, project, recentProjects),
                                 d.task.msg, in[1], in[2], in[3])
                   IN  /\ Handle(d.task.msg, st)
                       /\ Dispatched(d, rest, st.sent)
           ELSE /\ running' = (running \ {d}) \cup {rest}
                /\ UNCHANGED <<appVars, queue, published>>
    /\ UNCHANGED <<messaging, completed>>
    /\ UNCHANGED <<lifeVars, gateVars>>

\* A delivery that has served every subscriber ends.
TaskEnd(d) ==
    /\ alive
    /\ d \in running
    /\ d.todo = <<>>
    /\ running' = running \ {d}
    /\ completed' = [completed EXCEPT ![d.task.from] = d.task.seq]
    /\ UNCHANGED <<appVars, messaging, queue, published>>
    /\ UNCHANGED <<lifeVars, gateVars>>

NextSched ==
    \/ \E p \in Producers, m \in SchedMessages : PublishFrom(p, m)
    \/ TaskBegin
    \/ \E d \in running : TaskDeliver(d)
    \/ \E d \in running : TaskEnd(d)

SpecSched == InitSchedSpec /\ [][NextSched]_vars

\* ------------------------------------- startup, the license gate, shutdown

\* The process before Application::createInstance: nothing loaded, nothing
\* started, no license signal received.
InitProcess ==
    /\ hasGUI \in BOOLEAN
    /\ isTrial = FALSE
    /\ project = NoPath
    /\ recentProjects = <<>>
    /\ last = NoLog
    /\ alive = TRUE
    /\ messaging = NotStarted
    /\ queue = <<>>
    /\ running = {}
    /\ published = [t \in Threads |-> 0]
    /\ completed = [t \in Threads |-> 0]
    /\ lifecycle = <<>>
    /\ stopping = FALSE
    /\ stopCalls = 0
    /\ signals = <<>>
    /\ pending = <<>>
    /\ wrapped = <<>>

\* createInstance has returned.
Created == Len(lifecycle) >= Len(createInstance(hasGUI))

\* ~Application has returned: it has made its last call, and the call has
\* returned.
Destroyed ==
    /\ Len(lifecycle) = Len(createInstance(hasGUI)) + Len(ApplicationDestructor(hasGUI))
    /\ ~stopping

\* The license is known to be valid: the latest signal said so.
LicenseValid == signals # <<>> /\ signals[Len(signals)] = "valid"

\* The license gate receives MessageDispatchWhenLicenseValid(m), on the main
\* thread: m is published as a task when the license is known to be valid,
\* and otherwise kept as the youngest deferred entry.
dispatchWhenLicenseValid(m) ==
    /\ wrapped' = Append(wrapped, [msg |-> m, at |-> Len(signals)])
    /\ signals' = signals
    /\ IF LicenseValid
       THEN /\ queue' = Append(queue, Task(m, MainThread, published[MainThread] + 1))
            /\ published' = [published EXCEPT ![MainThread] = @ + 1]
            /\ pending' = pending
       ELSE /\ pending' = Append(pending, m)
            /\ UNCHANGED <<queue, published>>

\* The next call of createInstance is made.  Until the messaging is started
\* a message dispatched is delivered synchronously, on the main thread.
CreateInstanceStep ==
    /\ alive
    /\ ~Created
    /\ ~\E d \in running : d.thread = MainThread
    /\ LET c == createInstance(hasGUI)[Len(lifecycle) + 1]
       IN  /\ lifecycle' = Append(lifecycle, c)
           /\ CASE c = "Application::startMessagingAndScheduling" ->
                     /\ messaging' = startMessagingAndScheduling
                     /\ UNCHANGED <<queue, running, published, gateVars>>
                [] c = "MessageDispatchWhenLicenseValid::dispatch" ->
                     /\ dispatchWhenLicenseValid(MessageShowStartScreen)
                     /\ UNCHANGED <<messaging, running>>
                [] c = "MessageShowStartScreen::dispatch" ->
                     LET t == Task(MessageShowStartScreen, MainThread,
                                   published[MainThread] + 1)
                     IN  /\ IF messaging.sendMessagesAsTasks
                            THEN queue' = Append(queue, t) /\ running' = running
                            ELSE queue' = queue
                                 /\ running' = running \cup {Delivery(t, MainThread)}
                         /\ published' = [published EXCEPT ![MainThread] = @ + 1]
                         /\ UNCHANGED <<messaging, gateVars>>
                [] OTHER ->
                     UNCHANGED <<messaging, queue, running, published, gateVars>>
    /\ UNCHANGED <<appVars, completed, stopping, stopCalls>>

\* Another component gives a message to the license gate.
GatedMessages == {MessageActivateWindow, MessageLoadProject(1, FALSE)}

GateDispatch(m) ==
    /\ alive
    /\ Created
    /\ ~\E i \in 1..Len(wrapped) : wrapped[i].msg = m
    /\ dispatchWhenLicenseValid(m)
    /\ UNCHANGED <<appVars, messaging, running, completed, lifeVars>>

\* The license checker resolves the license: on "valid" the gate publishes
\* its deferred messages, oldest first, and clears the list; on "invalid" it
\* discards them.
LicenseSignal(v) ==
    /\ alive
    /\ "LicenseChecker::createInstance" \in Range(lifecycle)
    /\ Len(signals) < MaxSignals
    /\ signals' = Append(signals, v)
    /\ IF v = "valid"
       THEN /\ queue' = queue \o FollowUps(pending, MainThread)
            /\ published' = [published EXCEPT ![MainThread] = @ + Len(pending)]
       ELSE UNCHANGED <<queue, published>>
    /\ pending' = <<>>
    /\ UNCHANGED <<appVars, messaging, running, completed, lifeVars, wrapped>>

\* SpecLicense: createInstance runs, the license checker signals, other
\* components give messages to the license gate, the scheduler delivers.
NextLicense ==
    \/ CreateInstanceStep
    \/ \E m \in GatedMessages : GateDispatch(m)
    \/ \E v \in {"valid", "invalid"} : LicenseSignal(v)
    \/ TaskBegin
    \/ \E d \in running : TaskDeliver(d)
    \/ \E d \in running : TaskEnd(d)

SpecLicense == InitProcess /\ [][NextLicense]_vars

\* The messages the UI publishes in SpecLife: one whose handler dispatches
\* a further message and one whose handler changes the project; neither
\* handler calls through m_project.
LifeMessages == {MessageSwitchColorScheme, MessageLoadProject(1, FALSE)}

\* Message::dispatch() on the main thread while the message loop runs.
PublishWhileRunning(m) ==
    /\ messaging.messageLoops > 0
    /\ PublishFrom(MainThread, m)

\* TaskScheduler::stopSchedulerLoop is called: when the loop runs the
\* caller waits for the worker to exit, otherwise the call does nothing.
stopSchedulerLoop ==
    /\ stopCalls' = stopCalls + 1
    /\ stopping' = (messaging.schedulerLoops > 0)

\* The next call of ~Application is made (stopSchedulerLoop returns when the
\* worker has exited).
DestructorStep ==
    /\ alive
    /\ Created
    /\ ~Destroyed
    /\ ~stopping
    /\ LET c == ApplicationDestructor(hasGUI)
                    [Len(lifecycle) - Len(createInstance(hasGUI)) + 1]
       IN  /\ lifecycle' = Append(lifecycle, c)
           /\ CASE c = "MessageQueue::stopMessageLoop" ->
                     /\ messaging' = [messaging EXCEPT !.messageLoops = 0]
                     /\ UNCHANGED <<stopping, stopCalls>>
                [] c = "TaskScheduler::stopSchedulerLoop" ->
                     /\ stopSchedulerLoop
                     /\ UNCHANGED messaging
                [] OTHER ->
                     UNCHANGED <<messaging, stopping, stopCalls>>
    /\ UNCHANGED <<appVars, queue, running, published, completed, gateVars>>

\* Mutant of WorkerMayExit: the worker exits after the task it is running,
\* leaving the queue as it is.
WorkerMayExit_NoDrain == stopping /\ running = {}

\* Told to stop, the worker exits once the queue is drained.
WorkerMayExit == stopping /\ queue = <<>> /\ running = {}

\* The worker exits and stopSchedulerLoop returns.
WorkerExit ==
    /\ alive
    /\ WorkerMayExit
    /\ messaging' = [messaging EXCEPT !.schedulerLoops = 0]
    /\ stopping' = FALSE
    /\ UNCHANGED <<appVars, queue, running, published, completed>>
    /\ UNCHANGED <<lifecycle, stopCalls, gateVars>>

\* stopSchedulerLoop is called while the loop does not run: before it was
\* started, or after it was stopped.
StopWhenNotRunning ==
    /\ alive
    /\ messaging.schedulerLoops = 0
    /\ ~stopping
    /\ stopCalls < MaxStopCalls
    /\ stopSchedulerLoop
    /\ UNCHANGED <<appVars, schedVars, lifecycle, gateVars>>

\* SpecLife: createInstance runs, the UI publishes messages, the scheduler
\* delivers them, ~Application runs.  The worker thread keeps running: it
\* takes a task when there is one, serves the subscribers, ends the task,
\* and exits when told to stop and drained.
NextLife ==
    \/ CreateInstanceStep
    \/ \E m \in LifeMessages : PublishWhileRunning(m)
    \/ TaskBegin
    \/ \E d \in running : TaskDeliver(d)
    \/ \E d \in running : TaskEnd(d)
    \/ DestructorStep
    \/ WorkerExit
    \/ StopWhenNotRunning

SpecLife ==
    /\ InitProcess
    /\ [][NextLife]_vars
    /\ WF_vars(TaskBegin)
    /\ WF_vars(\E d \in running : TaskDeliver(d))
    /\ WF_vars(\E d \in running : TaskEnd(d))
    /\ WF_vars(WorkerExit)

\* ------------------------------------------------------------- properties

Called(log, c) == c \in Range(log.calls)

\* a is called, and before the first call of b.
CalledBefore(log, a, b) ==
    /\ Find(log.calls, a) # 0
    /\ Find(log.calls, a) < Find(log.calls, b)

\* This step is the handling of the message at the head of the queue.  (The
\* environment publishes only into an empty queue, and handling a message
\* always changes the queue.)
HeadMessage == Head(queue).msg

Handling == queue # <<>> /\ queue' # queue /\ last'.msg = HeadMessage

LoadCalls == {"Project::create", "StorageCache::clear",
              "ApplicationSettings::setRecentProjects", "ApplicationSettings::save",
              "MainView::updateRecentProjectMenu"}

RefreshCalls == {"Project::refresh", "Project::forceRefresh"}

\* The most recent handler invocation was a load attempt that faulted: the
\* state the specification calls Failed.
Failed == last.msg.kind = "LoadProject" /\ last.fault # "none"

\* list without every occurrence of p, the order of the rest kept.
RECURSIVE Without(_, _)
Without(list, p) ==
    IF list = <<>>
    THEN <<>>
    ELSE IF Head(list) = p
         THEN Without(Tail(list), p)
         ELSE <<Head(list)>> \o Without(Tail(list), p)

\* p pushed to the front of list, deduplicated, within the capacity.
PushedToFront(list, p) ==
    LET whole == <<p>> \o Without(list, p)
    IN  SubSeq(whole, 1, Min(Len(whole), MaxRecentProjects))

\* C1: with a UI attached and not in the trial build, when a LoadProject
\* message with the force-refresh flag is handled and the confirmation dialog
\* is answered "No" (1), the state is unchanged: same current project, no
\* load started, no refresh or forceRefresh invoked, storage cache not
\* cleared, no error Status emitted.
C1_DeclineLeavesStateUnchanged ==
    [][(/\ Handling
        /\ hasGUI /\ ~isTrial
        /\ HeadMessage.kind = "LoadProject"
        /\ HeadMessage.forceRefresh
        /\ last'.answer = 1)
       => (/\ project' = project
           /\ recentProjects' = recentProjects
           /\ \A c \in LoadCalls \cup RefreshCalls \cup {"MessageStatus(error)"} :
                 ~Called(last', c))]_vars

\* C2 as stated: when LoadProject(pathA, force=false) is handled twice in
\* succession (the first handling having created the project without a
\* fault), the two handlings together make exactly one project creation and
\* exactly one recent-projects update, and the second changes neither the
\* project nor the storage cache nor the recent-projects list.
SecondOfTwoLoads ==
    /\ Handling
    /\ HeadMessage.kind = "LoadProject"
    /\ ~HeadMessage.forceRefresh
    /\ last.msg = HeadMessage
    /\ Called(last, "Project::create")
    /\ last.fault = "none"

SecondLoadIsNoOp ==
    /\ project' = project
    /\ project' = HeadMessage.path
    /\ recentProjects' = recentProjects
    /\ \A c \in LoadCalls \cup RefreshCalls : ~Called(last', c)
    /\ Count(last.calls, "Project::create") + Count(last'.calls, "Project::create") = 1

RecentUpdatesOfBoth ==
    Count(last.calls, "ApplicationSettings::setRecentProjects")
        + Count(last'.calls, "ApplicationSettings::setRecentProjects")

C3_LoadFaultReported ==
    Failed
    => (/\ Count(last.calls, "MessageStatus(error)") = 1
        /\ last.calls[Len(last.calls)] = "MessageStatus(error)"
        /\ ~last.escaped
        /\ alive)

C3_Witness ==
    /\ Failed
    /\ last.fault = "view"
    /\ project = last.msg.path

\* C4: when the most recent load attempt faulted, a LoadProject without the
\* force flag starts a new project creation, whatever path it names.
C4_FailedReattemptsLoad ==
    [][(/\ Handling
        /\ Failed
        /\ HeadMessage.kind = "LoadProject"
        /\ ~HeadMessage.forceRefresh
        /\ HeadMessage.path # NoPath)
       => Called(last', "Project::create")]_vars

\* C5 as stated: every successful load, with or without a UI, pushes the
\* loaded path to the front of the recent-projects list (deduplicated) and
\* persists the list; the menu refresh fires exactly when a UI is attached.
SuccessfulLoad ==
    /\ Handling
    /\ HeadMessage.kind = "LoadProject"
    /\ Called(last', "Project::create")
    /\ last'.fault = "none"

RecentPushedAndSaved ==
    /\ recentProjects' = PushedToFront(recentProjects, HeadMessage.path)
    /\ Count(last'.calls, "ApplicationSettings::setRecentProjects") = 1
    /\ Count(last'.calls, "ApplicationSettings::save") = 1
    /\ \E i, j \in 1..Len(last'.calls) :
          /\ i < j
          /\ last'.calls[i] = "ApplicationSettings::setRecentProjects"
          /\ last'.calls[j] = "ApplicationSettings::save"

C5_EveryLoadUpdatesRecent_Original ==
    [][SuccessfulLoad
       => (/\ RecentPushedAndSaved
           /\ Called(last', "MainView::updateRecentProjectMenu") <=> hasGUI)]_vars

\* C5 (amended): on every successful load with a UI attached the loaded path
\* is pushed to the front of the recent-projects list (deduplicated), the
\* list is persisted and the menu refresh fires; with no UI attached the
\* list is neither changed nor persisted and no menu refresh fires.
C5_LoadUpdatesRecentWithUI ==
    [][SuccessfulLoad
       => IF hasGUI
          THEN /\ RecentPushedAndSaved
               /\ Count(last'.calls, "MainView::updateRecentProjectMenu") = 1
          ELSE /\ recentProjects' = recentProjects
               /\ ~Called(last', "ApplicationSettings::setRecentProjects")
               /\ ~Called(last', "ApplicationSettings::save")
               /\ ~Called(last', "MainView::updateRecentProjectMenu")]_vars

C5_Witness ==
    /\ hasGUI
    /\ last.msg.kind = "LoadProject"
    /\ last.fault = "none"
    /\ Called(last, "Project::create")
    /\ Called(last, "ApplicationSettings::save")
    /\ Len(recentProjects) > 1
    /\ recentProjects[1] = last.msg.path

\* C6: whatever the length of the stored list, once updateRecentProjects has
\* written the list it has at most 7 entries, and the list changes in no
\* other way.
C6_RecentAtMostSeven ==
    [][/\ Called(last', "ApplicationSettings::setRecentProjects")
          => Len(recentProjects') <= MaxRecentProjects
       /\ recentProjects' # recentProjects
          => (/\ Called(last', "ApplicationSettings::setRecentProjects")
              /\ Len(recentProjects') <= MaxRecentProjects)]_vars

C6_Witness ==
    /\ Called(last, "ApplicationSettings::setRecentProjects")
    /\ Len(recentProjects) = MaxRecentProjects
    /\ recentProjects = <<1>> \o SubSeq(Stored(NumRecentPaths, MaxStored), 1, MaxRecentProjects - 1)

\* C7: starting from an empty list, after the distinct paths 1, 2, .., n have
\* been added in that order the list is n, n-1, .. down to at most 7
\* entries: after A..H (1..8) it is exactly [H,G,F,E,D,C,B].
MostRecentFirst(n) == [i \in 1..Min(n, MaxRecentProjects) |-> n + 1 - i]

C7_MostRecentFirstOldestEvicted ==
    hasGUI => recentProjects = MostRecentFirst(NumAdds - Len(queue))

C7_Witness ==
    /\ hasGUI
    /\ queue = <<>>
    /\ recentProjects = <<8, 7, 6, 5, 4, 3, 2>>

\* C8: re-adding a path that is in the list moves it to the front, keeps the
\* order of the other entries, does not lengthen the list; and the list never
\* holds a path twice.
C8_ReAddMovesToFront ==
    [][/\ NoDuplicates(recentProjects')
       /\ (/\ hasGUI
           /\ last'.msg.path \in Range(recentProjects))
          => LET p == last'.msg.path
                 others == Without(recentProjects, p)
             IN  /\ recentProjects'[1] = p
                 /\ Len(recentProjects') <= Len(recentProjects)
                 /\ Tail(recentProjects')
                      = SubSeq(others, 1, Len(recentProjects') - 1)
                 /\ Len(recentProjects')
                      = Min(Len(recentProjects), MaxRecentProjects)]_vars

C8_Witness ==
    /\ hasGUI
    /\ recentProjects = <<2, 4, 3, 1>>
    /\ last.msg.path = 2

\* C9: whatever the producers publish, at most one delivery is in progress
\* at any time: no two handler invocations overlap.
C9_OneTaskAtATime == Cardinality(running) <= 1

C9_Witness ==
    /\ \E d \in running : d.task.from = 1 /\ d.todo = <<>>
    /\ \E i \in 1..Len(queue) : queue[i].from = 2
    /\ published[1] > 0
    /\ published[2] > 0

\* C10: while a message is being delivered, every earlier message of the
\* same thread has been delivered to all its subscribers, no other message is
\* being delivered, and the later messages of that thread (the follow-ups a
\* handler dispatched among them) wait in the queue, in the order published.
C10_FanOutInPublishOrder ==
    /\ \A d \in running :
          /\ completed[d.task.from] = d.task.seq - 1
          /\ \A e \in running : e = d
          /\ \A i \in 1..Len(queue) :
                queue[i].from = d.task.from => queue[i].seq > d.task.seq
    /\ \A i, j \in 1..Len(queue) :
          (i < j /\ queue[i].from = queue[j].from) => queue[i].seq < queue[j].seq

C10_Witness ==
    /\ \E d \in running :
          /\ d.task.from = Worker
          /\ d.task.msg = RefreshUiOnlyKeepSettings
          /\ d.todo = <<"View">>
          /\ completed[Worker] = d.task.seq - 1
    /\ \E i \in 1..Len(queue) : queue[i].from = 1 /\ queue[i].seq = 2
    /\ completed[1] = 1

\* The gate has been given message m.
IsWrapped(m) == \E i \in 1..Len(wrapped) : wrapped[i].msg = m

\* The place of message m among the messages given to the gate.
WrapIndex(m) == CHOOSE i \in 1..Len(wrapped) : wrapped[i].msg = m

\* The entry was given to the gate while the license was known to be valid,
\* or the first signal after it said "valid".
ReleasedByValid(w) ==
    \/ w.at > 0 /\ signals[w.at] = "valid"
    \/ Len(signals) > w.at /\ signals[w.at + 1] = "valid"

\* The messages that only the license gate publishes.
ThroughGate == {MessageShowStartScreen} \cup GatedMessages

\* The tasks published and not yet ended, in the order they are delivered.
InFlight ==
    LET now == CHOOSE q \in [1..Cardinality(running) -> running] :
                  \A d \in running : \E i \in DOMAIN q : q[i] = d
    IN  [i \in 1..Cardinality(running) |-> now[i].task] \o queue

\* C11: a message given to the license gate is delivered to its subscriber
\* (or waits in the scheduler's queue) only if the license was known to be
\* valid when it was given, or the first signal after it said "valid": given
\* before any signal it is not delivered before a "valid" signal, and never
\* once an "invalid" signal has come first.  The messages the gate publishes
\* keep the order in which they were given to it.
C11_DeferredUntilLicenseValid ==
    /\ \A i \in 1..Len(InFlight) :
          InFlight[i].msg \in ThroughGate
          => (/\ IsWrapped(InFlight[i].msg)
              /\ ReleasedByValid(wrapped[WrapIndex(InFlight[i].msg)]))
    /\ \A i, j \in 1..Len(InFlight) :
          (/\ i < j
           /\ InFlight[i].msg \in ThroughGate
           /\ InFlight[j].msg \in ThroughGate)
          => WrapIndex(InFlight[i].msg) < WrapIndex(InFlight[j].msg)
    /\ \A i \in 1..Len(pending) :
          /\ IsWrapped(pending[i])
          /\ wrapped[WrapIndex(pending[i])].at = Len(signals)
          /\ ~LicenseValid

C11_Witness ==
    /\ \E d \in running :
          /\ d.task.msg = MessageShowStartScreen
          /\ d.todo = <<>>
    /\ queue # <<>>
    /\ Head(queue).msg \in GatedMessages
    /\ wrapped[WrapIndex(Head(queue).msg)].at = 0
    /\ signals = <<"valid">>

\* Every task published has been run to completion.
AllCompleted ==
    /\ queue = <<>>
    /\ running = {}
    /\ \A t \in Threads : completed[t] = published[t]

\* C12: once stopSchedulerLoop, called by ~Application, has returned, the
\* worker has exited and every task that was queued has run to completion;
\* a call that waits for the worker returns; and a call made while the loop
\* does not run (a second call, or one before the start) changes nothing.
C12_StopDrainsThenReturns ==
    /\ []((/\ "TaskScheduler::stopSchedulerLoop" \in Range(lifecycle)
           /\ ~stopping)
          => (messaging.schedulerLoops = 0 /\ AllCompleted))
    /\ [](messaging.schedulerLoops = 0 /\ "Application::startMessagingAndScheduling"
                                             \in Range(lifecycle)
          => AllCompleted)
    /\ (stopping ~> ~stopping)
    /\ [][(stopCalls' # stopCalls /\ messaging.schedulerLoops = 0)
          => UNCHANGED <<schedVars, stopping>>]_vars

C12_Witness ==
    /\ stopping
    /\ Len(queue) >= 2
    /\ running # {}

\* The calls of createInstance and ~Application made so far, as a log.
Lifecycle == [calls |-> lifecycle]

\* C13: the settings and the style are loaded before the scheduler and the
\* message loop are started; they are started exactly once; on shutdown the
\* message loop is stopped first, then the scheduler, and then, with a GUI
\* only, the layout is saved.
C13_StartupShutdownOrder ==
    /\ (messaging # NotStarted
        \/ Called(Lifecycle, "Application::startMessagingAndScheduling"))
       => \A c \in {"ApplicationSettings::load", "ColorScheme::load",
                    "GraphViewStyle::loadStyleSettings"} :
             CalledBefore(Lifecycle, c, "Application::startMessagingAndScheduling")
    /\ Count(lifecycle, "Application::startMessagingAndScheduling")
         = (IF Created THEN 1 ELSE 0)
    /\ messaging.schedulerLoops <= 1
    /\ messaging.messageLoops <= 1
    /\ Called(Lifecycle, "MessageQueue::stopMessageLoop")
       => (/\ CalledBefore(Lifecycle, "Application::startMessagingAndScheduling",
                           "MessageQueue::stopMessageLoop")
           /\ messaging.messageLoops = 0)
    /\ Called(Lifecycle, "TaskScheduler::stopSchedulerLoop")
       => CalledBefore(Lifecycle, "MessageQueue::stopMessageLoop",
                       "TaskScheduler::stopSchedulerLoop")
    /\ Called(Lifecycle, "MainView::saveLayout")
       => (/\ hasGUI
           /\ CalledBefore(Lifecycle, "TaskScheduler::stopSchedulerLoop",
                           "MainView::saveLayout")
           /\ messaging.schedulerLoops = 0)
    /\ Destroyed
       => (/\ Called(Lifecycle, "MainView::saveLayout") <=> hasGUI
           /\ messaging.schedulerLoops = 0
           /\ messaging.messageLoops = 0)

C13_Witness ==
    /\ Destroyed
    /\ hasGUI
    /\ lifecycle[Len(lifecycle)] = "MainView::saveLayout"
    /\ completed[MainThread] > 0

\* The calls of Application::loadStyle, in order.
StyleCalls == <<"ColorScheme::load", "GraphViewStyle::loadStyleSettings">>

\* The task at the head of the queue is the Refresh that the handler of
\* SwitchColorScheme has just dispatched.
ColorSchemeRefreshNext ==
    /\ last.msg.kind = "SwitchColorScheme"
    /\ queue # <<>>
    /\ Head(queue).from = Worker

\* C14: handling SwitchColorScheme and then the Refresh it publishes never
\* changes the project state: the current project and the recent-projects
\* list stay as they are, the storage cache is not cleared, no project
\* refresh runs, the settings are neither reloaded nor saved; the handler
\* only reloads the style and publishes one UI-only Refresh that keeps the
\* settings, and that Refresh only refreshes the views (with a UI attached).
C14_SwitchColorSchemeKeepsProject ==
    [][/\ (Handling /\ HeadMessage.kind = "SwitchColorScheme")
          => (/\ project' = project
              /\ recentProjects' = recentProjects
              /\ last'.calls = StyleCalls
              /\ queue' = Tail(queue)
                            \o <<Task(MessageRefresh(FALSE, TRUE, FALSE), Worker, 0)>>
              /\ alive')
       /\ (Handling /\ ColorSchemeRefreshNext)
          => (/\ HeadMessage.kind = "Refresh"
              /\ project' = project
              /\ recentProjects' = recentProjects
              /\ last'.calls = IF hasGUI
                               THEN <<"ComponentManager::refreshViews">>
                               ELSE <<>>
              /\ queue' = Tail(queue)
              /\ alive')]_vars

C14_Witness ==
    /\ ColorSchemeRefreshNext
    /\ HeadMessage = RefreshUiOnlyKeepSettings
    /\ last.calls = StyleCalls
    /\ project # NoPath
    /\ recentProjects # <<>>

\* C15: handling FinishedParsing makes exactly one statistics log of the
\* current project and publishes a UI-only Refresh exactly when a UI is
\* attached; it never refreshes or loads a project.
C15_FinishedParsingLogsOnce ==
    [][(Handling /\ HeadMessage.kind = "FinishedParsing")
       => (/\ Count(last'.calls, "Project::logStats") = 1
           /\ queue' = Tail(queue)
                         \o (IF hasGUI THEN <<Task(RefreshUiOnly, Worker, 0)>> ELSE <<>>)
           /\ \A c \in LoadCalls \cup RefreshCalls : ~Called(last', c)
           /\ project' = project)]_vars

\* C16: handling Refresh with uiOnly = true never clears the storage cache
\* nor invokes refresh or forceRefresh; with uiOnly = false it clears the
\* storage cache and then invokes exactly one of forceRefresh (all = true) or
\* refresh (all = false) on the current project; the settings are reloaded
\* beforehand exactly when reloadSettings is set.
C16_RefreshByFlags ==
    [][(Handling /\ HeadMessage.kind = "Refresh")
       => (/\ Called(last', "ApplicationSettings::load") <=> HeadMessage.reloadSettings
           /\ HeadMessage.reloadSettings => last'.calls[1] = "ApplicationSettings::load"
           /\ HeadMessage.uiOnly
              => \A c \in RefreshCalls \cup {"StorageCache::clear"} : ~Called(last', c)
           /\ ~HeadMessage.uiOnly
              => (/\ Count(last'.calls, "StorageCache::clear") = 1
                  /\ Count(last'.calls, "Project::forceRefresh")
                       = (IF HeadMessage.all THEN 1 ELSE 0)
                  /\ Count(last'.calls, "Project::refresh")
                       = (IF HeadMessage.all THEN 0 ELSE 1)
                  /\ \E c \in RefreshCalls :
                        CalledBefore(last', "StorageCache::clear", c)))]_vars

\* C17: after a LoadProject message with a non-empty path has been handled
\* without a fault and without the user declining, the current project is
\* the one the message names, with and without the force flag, whether or
\* not another project was loaded before.
C17_LoadMakesPathCurrent ==
    [][(/\ Handling
        /\ HeadMessage.kind = "LoadProject"
        /\ HeadMessage.path # NoPath
        /\ last'.fault = "none"
        /\ last'.answer # 1)
       => project' = HeadMessage.path]_vars

\* C18: no handler uses the current project while no project is loaded:
\* Project::refresh, Project::forceRefresh and Project::logStats are only
\* called on a project that exists.
C18_ProjectUsedOnlyWhenLoaded == ~last.nullDeref

\* C19: a load attempt whose project creation faults leaves the current
\* project as it was, although the storage cache has been cleared and, with
\* a UI attached, the recent-projects list has been updated and persisted
\* with the failed path at its front (without a UI the list is unchanged).
C19_CreateFaultKeepsProject ==
    [][(Handling /\ HeadMessage.kind = "LoadProject" /\ last'.fault = "create")
       => (/\ project' = project
           /\ CalledBefore(last', "StorageCache::clear", "Project::create")
           /\ IF hasGUI
              THEN /\ recentProjects' = PushedToFront(recentProjects, HeadMessage.path)
                   /\ recentProjects'[1] = HeadMessage.path
                   /\ CalledBefore(last', "ApplicationSettings::save",
                                   "StorageCache::clear")
              ELSE recentProjects' = recentProjects)]_vars

C19_Witness ==
    /\ Failed
    /\ last.fault = "create"
    /\ hasGUI
    /\ project # NoPath
    /\ project # last.msg.path
    /\ recentProjects[1] = last.msg.path
    /\ Called(last, "StorageCache::clear")

\* The calls to the UI surface (MainView) and to the component manager.
UICalls ==
    {"MainView::confirm", "MainView::setTitle", "MainView::hideStartScreen",
     "MainView::updateRecentProjectMenu", "MainView::activateWindow",
     "ComponentManager::refreshViews", "ComponentManager::clearComponents"}

\* C20: with no UI attached, no handler calls the UI surface or the
\* component manager.
C20_NoUICallsWithoutUI ==
    ~hasGUI => \A c \in UICalls : ~Called(last, c)

C20_Witness ==
    /\ ~hasGUI
    /\ last.msg.kind = "LoadProject"
    /\ last.msg.forceRefresh
    /\ Called(last, "Project::forceRefresh")
    /\ project # NoPath

====
